---- MODULE Spec2Model ----
(***************************************************************************)
(* FireCrawlLoader (backend/open_webui/retrieval/loaders/firecrawl.py).    *)
(*                                                                         *)
(* The loader is modelled as a state machine: the constructor, the two     *)
(* generators lazy_load / alazy_load (the drivers), and the per-locator    *)
(* retrievals _scrape_url and _crawl_url with its poll loop, each split at *)
(* the points where it waits for the FireCrawl service.  The service is    *)
(* the environment: every reply it can give is drawn from small sets.      *)
(*                                                                         *)
(* Text that the code inspects character by character (addresses, page     *)
(* text) is a sequence of one-character strings; identifiers that are only *)
(* copied around (locators, job ids, messages) are plain strings.          *)
(* A JSON object is a function from its keys; a JSON number n is <<n>> and *)
(* JSON null is <<>> where a number is expected.                           *)
(***************************************************************************)
EXTENDS Integers, Sequences, FiniteSets, TLC

(***************************************************************************)
(* Bounds of the model.                                                    *)
(***************************************************************************)
MaxUrls == 2        \* locators handed to one loader
MaxPages == 2       \* page entries in one completed crawl response
SlowGet == 300      \* duration of a slow status request, in seconds

(***************************************************************************)
(* Program constants.                                                      *)
(***************************************************************************)
poll_interval == 5
max_wait_time == 600

(***************************************************************************)
(* Strings as character sequences.                                         *)
(***************************************************************************)
HTTPS == <<"h", "t", "t", "p", "s", ":", "/", "/">>
HTTP == <<"h", "t", "t", "p", ":", "/", "/">>
SchemeSep == <<":", "/", "/">>
ScrapePath == <<"/", "v", "1", "/", "s">>   \* "/v1/scrape", abbreviated
CrawlPath == <<"/", "v", "1", "/", "c">>    \* "/v1/crawl", abbreviated
Whitespace == {" "}

\* str.startswith
StartsWith(s, p) == Len(s) >= Len(p) /\ SubSeq(s, 1, Len(p)) = p

Drop(s, n) == SubSeq(s, n + 1, Len(s))

\* str.replace(old, new): every non-overlapping occurrence, left to right
RECURSIVE Replace(_, _, _)
Replace(s, old, new) ==
    IF s = <<>> THEN <<>>
    ELSE IF StartsWith(s, old) THEN new \o Replace(Drop(s, Len(old)), old, new)
    ELSE <<Head(s)>> \o Replace(Tail(s), old, new)

\* str.rstrip(chars)
RECURSIVE RStrip(_, _)
RStrip(s, chars) ==
    IF s # <<>> /\ s[Len(s)] \in chars THEN RStrip(SubSeq(s, 1, Len(s) - 1), chars)
    ELSE s

RECURSIVE LStrip(_, _)
LStrip(s, chars) ==
    IF s # <<>> /\ Head(s) \in chars THEN LStrip(Tail(s), chars) ELSE s

\* str.strip()
Strip(s) == LStrip(RStrip(s, Whitespace), Whitespace)

\* position of the first occurrence of p in s, 0 when there is none
RECURSIVE Find(_, _, _)
Find(s, p, from) ==
    IF from + Len(p) - 1 > Len(s) THEN 0
    ELSE IF SubSeq(s, from, from + Len(p) - 1) = p THEN from
    ELSE Find(s, p, from + 1)

\* length of the longest prefix of s without a "/"
RECURSIVE UpToSlash(_)
UpToSlash(s) ==
    IF s = <<>> \/ Head(s) = "/" THEN 0 ELSE 1 + UpToSlash(Tail(s))

\* urllib.parse.urljoin(base, path) for a path that starts with "/":
\* scheme and authority of the base are kept, its own path is replaced.
urljoin(base, path) ==
    LET k == Find(base, SchemeSep, 1) IN
    IF k = 0 THEN path
    ELSE LET auth == Drop(base, k + 2) IN
         SubSeq(base, 1, k + 2 + UpToSlash(auth)) \o path

(***************************************************************************)
(* JSON objects.                                                           *)
(***************************************************************************)
EmptyDict == <<>>

\* dict.get(key, default)
DictGet(d, k, default) == IF k \in DOMAIN d THEN d[k] ELSE default

\* d[key] = value
DictSet(d, k, v) == [x \in (DOMAIN d) \cup {k} |-> IF x = k THEN v ELSE d[x]]

JNull == <<>>
JNum(n) == <<n>>
NoMsg == ""

(***************************************************************************)
(* Documents and errors.                                                   *)
(* A Document is [page_content, metadata]; the generators carry it with    *)
(* the index of the page entry it was built from (entry), which is not     *)
(* part of the Document the caller sees.                                   *)
(* An exception is [exc, text, arg, job, url]: its class, the fixed part   *)
(* of its message, the service-reported part, and the job id and locator   *)
(* the message names ("" when it names none).                              *)
(***************************************************************************)
Document(content, metadata) == [page_content |-> content, metadata |-> metadata]

Error(exc, text, arg, job, url) ==
    [exc |-> exc, text |-> text, arg |-> arg, job |-> job, url |-> url]

Return(docs, logs) == [kind |-> "return", docs |-> docs, logs |-> logs]
Raise(err, logs) == [kind |-> "raise", err |-> err, logs |-> logs]

\* data.get("markdown", data.get("content", ""))
ExtractContent(data) == DictGet(data, "markdown", DictGet(data, "content", <<>>))

\* the loop of _scrape_url over firecrawl_metadata.items(): every key but
\* title and description is copied under the firecrawl_ prefix
RECURSIVE ScrapeFlatten(_, _, _)
ScrapeFlatten(metadata, fm, keys) ==
    IF keys = {} THEN metadata
    ELSE LET key == CHOOSE k \in keys : TRUE
             next == IF key \notin {"title", "description"}
                     THEN DictSet(metadata, "firecrawl_" \o key, fm[key])
                     ELSE metadata
         IN ScrapeFlatten(next, fm, keys \ {key})

ScrapeMetadata(url, content, data) ==
    LET base == [source |-> url, url |-> url, firecrawl_mode |-> "scrape",
                 content_length |-> Len(content)]
    IN IF "metadata" \in DOMAIN data
       THEN LET fm == data["metadata"]
                m1 == DictSet(base, "title", DictGet(fm, "title", ""))
                m2 == DictSet(m1, "description", DictGet(fm, "description", ""))
            IN ScrapeFlatten(m2, fm, DOMAIN fm)
       ELSE base

\* mutant: the test without the strip() half
ScrapeNoContent_NoStrip(content) == content = <<>>

\* the empty-content test of _scrape_url
ScrapeNoContent(content) == content = <<>> \/ Strip(content) = <<>>

\* _scrape_url from the arrival of the response on
scrape_url_result(url, resp) ==
    IF resp.http = "error"
    THEN Raise(Error("HTTPError", "", NoMsg, "", ""), <<"scrape_url:http">>)
    ELSE IF resp.http = "timeout"
    THEN Raise(Error("Timeout", "", NoMsg, "", ""), <<"scrape_url:exc">>)
    ELSE LET result == resp.json IN
         IF ~DictGet(result, "success", FALSE)
         THEN Raise(Error("Exception", "FireCrawl scrape failed: ",
                          DictGet(result, "error", "Unknown error during scrape."),
                          "", ""),
                    <<"scrape_url:failed", "scrape_url:exc">>)
         ELSE LET data == DictGet(result, "data", EmptyDict)
                  content == ExtractContent(data)
              IN IF ScrapeNoContent(content)
                 THEN Return(<<>>, <<>>)
                 ELSE Return(<<[doc |-> Document(content,
                                                 ScrapeMetadata(url, content, data)),
                                entry |-> 1]>>, <<>>)

\* mutant: the whitespace test of _scrape_url used for crawled pages too
CrawlNoContent_Strip(content) == content = <<>> \/ Strip(content) = <<>>

\* mutant: no page is skipped
CrawlNoContent_Never(content) == FALSE

\* the empty-content test of _collect_results_sync
CrawlNoContent(content) == content = <<>>

\* the loop of _collect_results_sync over firecrawl_metadata.items():
\* a key that is not yet a key of metadata is copied under the prefix
RECURSIVE CrawlFlatten(_, _, _)
CrawlFlatten(metadata, fm, keys) ==
    IF keys = {} THEN metadata
    ELSE LET key == CHOOSE k \in keys : TRUE
             next == IF key \notin DOMAIN metadata
                     THEN DictSet(metadata, "firecrawl_" \o key, fm[key])
                     ELSE metadata
         IN CrawlFlatten(next, fm, keys \ {key})

CrawlMetadata(job, item, original_url) ==
    LET source_url == DictGet(item, "sourceURL", original_url)
        fm == DictGet(item, "metadata", EmptyDict)
        base == [source |-> source_url,
                 title |-> DictGet(fm, "title", ""),
                 description |-> DictGet(fm, "description", ""),
                 url |-> source_url,
                 firecrawl_mode |-> "crawl",
                 job_id |-> job,
                 original_url |-> original_url]
    IN IF "metadata" \in DOMAIN item THEN CrawlFlatten(base, fm, DOMAIN fm) ELSE base

\* the for loop of _collect_results_sync from entry k on
RECURSIVE CollectFrom(_, _, _, _)
CollectFrom(job, pages, original_url, k) ==
    IF k > Len(pages) THEN <<>>
    ELSE LET item == pages[k]
             content == ExtractContent(item)
             rest == CollectFrom(job, pages, original_url, k + 1)
         IN IF CrawlNoContent(content) THEN rest
            ELSE <<[doc |-> Document(content, CrawlMetadata(job, item, original_url)),
                    entry |-> k]>> \o rest

collect_results_sync(job, pages, original_url) ==
    IF pages = <<>> THEN <<>> ELSE CollectFrom(job, pages, original_url, 1)

\* the scheme correction of _crawl_url
StatusUrlUsed(status_url, crawl_submit_url) ==
    IF StartsWith(status_url, HTTPS) /\ StartsWith(crawl_submit_url, HTTP)
    THEN Replace(status_url, HTTPS, HTTP)
    ELSE status_url

Poll(job, status_url) == [kind |-> "poll", job |-> job, status_url |-> status_url]

\* mutant: a submission response without a job id is accepted
crawl_url_result_NoIdCheck(url, api_url, resp) ==
    LET crawl_submit_url == urljoin(api_url, CrawlPath) IN
    IF resp.http = "error"
    THEN Raise(Error("HTTPError", "", NoMsg, "", ""), <<"crawl_url:http">>)
    ELSE IF resp.http = "timeout"
    THEN Raise(Error("Timeout", "", NoMsg, "", ""), <<"crawl_url:exc">>)
    ELSE LET result == resp.json
             firecrawl_job_id == DictGet(result, "id", "")
             status_url == DictGet(result, "url", <<>>)
         IN IF status_url = <<>>
            THEN Raise(Error("Exception", "FireCrawl crawl submission failed: ",
                             DictGet(result, "message",
                                     "FireCrawl crawl submission did not return a status URL."),
                             "", ""),
                       <<"crawl_url:no_url", "crawl_url:exc">>)
            ELSE Poll(firecrawl_job_id, StatusUrlUsed(status_url, crawl_submit_url))

\* _crawl_url from the arrival of the submission's response up to the call
\* of _poll_crawl_status_sync
crawl_url_result(url, api_url, resp) ==
    LET crawl_submit_url == urljoin(api_url, CrawlPath) IN
    IF resp.http = "error"
    THEN Raise(Error("HTTPError", "", NoMsg, "", ""), <<"crawl_url:http">>)
    ELSE IF resp.http = "timeout"
    THEN Raise(Error("Timeout", "", NoMsg, "", ""), <<"crawl_url:exc">>)
    ELSE LET result == resp.json
             firecrawl_job_id == DictGet(result, "id", "")
             status_url == DictGet(result, "url", <<>>)
         IN IF firecrawl_job_id = ""
            THEN Raise(Error("Exception", "FireCrawl crawl submission failed: ",
                             DictGet(result, "message",
                                     "FireCrawl crawl submission did not return a job ID."),
                             "", ""),
                       <<"crawl_url:no_id", "crawl_url:exc">>)
            ELSE IF status_url = <<>>
            THEN Raise(Error("Exception", "FireCrawl crawl submission failed: ",
                             DictGet(result, "message",
                                     "FireCrawl crawl submission did not return a status URL."),
                             "", ""),
                       <<"crawl_url:no_url", "crawl_url:exc">>)
            ELSE Poll(firecrawl_job_id, StatusUrlUsed(status_url, crawl_submit_url))

\* mutant: the deadline is passed as soon as it is reached
DeadlinePassed_AtLeast(elapsed) == elapsed >= max_wait_time

\* the deadline test at the head of the poll loop
DeadlinePassed(elapsed) == elapsed > max_wait_time

TimeoutError(job, url) ==
    Raise(Error("Exception", "Timeout waiting for FireCrawl job", NoMsg, job, url),
          <<"poll:timeout", "poll:exc", "crawl_url:exc">>)

\* mutant: the status "error" is taken for a job still running
IsFailed_OnlyFailed(status) == status = "failed"

\* status values that end the poll loop
IsCompleted(status) == status = "completed"
IsFailed(status) == status \in {"failed", "error"}

\* progress = total and count / total * 100 if total > 0 else 0
\* raises TypeError when total, or count with a positive total, is no number
ProgressRaises(status_data) ==
    LET count == DictGet(status_data, "completed", JNum(0))
        total == DictGet(status_data, "total", JNum(0))
    IN \/ total = JNull
       \/ total[1] > 0 /\ count = JNull

Sleep == [kind |-> "sleep"]

\* mutant: a completed job without page data is taken for a failed one
poll_crawl_status_result_EmptyFails(job, url, resp) ==
    IF resp.http = "error"
    THEN Raise(Error("HTTPError", "", NoMsg, "", ""), <<"poll:http", "crawl_url:http">>)
    ELSE LET status_data == resp.json
             status == DictGet(status_data, "status", "")
         IN IF IsCompleted(status) /\ DictGet(status_data, "data", <<>>) # <<>>
            THEN Return(collect_results_sync(job, DictGet(status_data, "data", <<>>), url),
                        <<>>)
            ELSE IF IsFailed(status) \/ IsCompleted(status)
            THEN Raise(Error("Exception", "FireCrawl job failed: ",
                             DictGet(status_data, "message", "Unknown crawl error"),
                             "", ""),
                       <<"poll:failed", "poll:exc", "crawl_url:exc">>)
            ELSE IF ProgressRaises(status_data)
            THEN Raise(Error("TypeError", "", NoMsg, "", ""),
                       <<"poll:exc", "crawl_url:exc">>)
            ELSE Sleep

\* one pass of the poll loop of _poll_crawl_status_sync from the arrival of
\* the status response on (with the handlers of _crawl_url around it)
poll_crawl_status_result(job, url, resp) ==
    IF resp.http = "error"
    THEN Raise(Error("HTTPError", "", NoMsg, "", ""), <<"poll:http", "crawl_url:http">>)
    ELSE LET status_data == resp.json
             status == DictGet(status_data, "status", "")
         IN IF IsCompleted(status)
            THEN Return(collect_results_sync(job, DictGet(status_data, "data", <<>>), url),
                        <<>>)
            ELSE IF IsFailed(status)
            THEN Raise(Error("Exception", "FireCrawl job failed: ",
                             DictGet(status_data, "message", "Unknown crawl error"),
                             "", ""),
                       <<"poll:failed", "poll:exc", "crawl_url:exc">>)
            ELSE IF ProgressRaises(status_data)
            THEN Raise(Error("TypeError", "", NoMsg, "", ""),
                       <<"poll:exc", "crawl_url:exc">>)
            ELSE Sleep

(***************************************************************************)
(* The FireCrawl service and the network: what a request can come back     *)
(* with.  A response is [http, json, took]: the transport outcome ("ok",   *)
(* "error" for a status raise_for_status rejects, "timeout" for the        *)
(* 30-second request timeout), the decoded body, and how long it took.     *)
(***************************************************************************)
P1 == [markdown |-> <<"a">>, sourceURL |-> "page1",
       metadata |-> [title |-> "T", mode |-> "x"]]
P2 == [markdown |-> <<>>, content |-> <<"b">>]
P3 == [content |-> <<"b">>]
P4 == [markdown |-> <<" ">>]
PageEntries == {P1, P2, P3, P4}

U_https == HTTPS \o <<"s", "/", "j">>
U_http == HTTP \o <<"s", "/", "j">>
U_nested == HTTPS \o <<"s", "/", "j", "?">> \o HTTPS \o <<"x">>
StatusUrls == {U_https, U_http, U_nested}

ApiUrls == {HTTPS \o <<"f">>, HTTP \o <<"f", "/">>, HTTP \o <<"f", "/", "p">>}

Running == {[status |-> "scraping", completed |-> JNum(1), total |-> JNum(4)],
            [status |-> "scraping"],
            EmptyDict,
            [status |-> "scraping", total |-> JNull]}

Response(http, json, took) == [http |-> http, json |-> json, took |-> took]

\* sequences over S of length at most n
RECURSIVE SeqsUpTo(_, _)
SeqsUpTo(S, n) ==
    IF n = 0 THEN {<<>>}
    ELSE LET shorter == SeqsUpTo(S, n - 1)
         IN shorter \cup {Append(q, x) : q \in shorter, x \in S}

\* The ranges of inputs and service behaviour explored.  content: every
\* kind of page, several locators, jobs that are over at the first status
\* request.  address: every
\* base and polling address, one locator.  timed: every pace of status
\* request, one locator.  replay: the service answers a second load of the
\* same loader exactly as it answered the first.
Content == [name |-> "content", latencies |-> {SlowGet}, urls |-> MaxUrls,
            pages |-> {P1, P2, P4}, status_urls |-> {U_https},
            api_urls |-> {HTTPS \o <<"f">>},
            running |-> {}]
Address == [name |-> "address", latencies |-> {SlowGet}, urls |-> 1,
            pages |-> {P1, P3}, status_urls |-> StatusUrls, api_urls |-> ApiUrls,
            running |-> Running]
Timed == [name |-> "timed", latencies |-> {0, SlowGet}, urls |-> 1,
          pages |-> {P1}, status_urls |-> {U_https}, api_urls |-> {HTTPS \o <<"f">>},
          running |-> {[status |-> "scraping", completed |-> JNum(1), total |-> JNum(4)]}]
Replay == [name |-> "replay", latencies |-> {SlowGet}, urls |-> 2,
           pages |-> {P1, P2}, status_urls |-> {U_https}, api_urls |-> {HTTP \o <<"f">>},
           running |-> {[status |-> "scraping"]}]
Profiles == {Content, Address, Timed, Replay}

ScrapeReplies(p) ==
    {Response("error", EmptyDict, 0), Response("timeout", EmptyDict, 0)}
    \cup {Response("ok", j, 0) :
            j \in {EmptyDict, [success |-> FALSE, error |-> "quota"], [success |-> TRUE]}
                  \cup {[success |-> TRUE, data |-> d] : d \in p.pages}}

SubmitReplies(p) ==
    {Response("error", EmptyDict, 0), Response("timeout", EmptyDict, 0)}
    \cup {Response("ok", j, 0) :
            j \in {EmptyDict, [message |-> "denied"], [id |-> "job1"],
                   [url |-> U_https]}
                  \cup {[id |-> "job1", url |-> u] : u \in p.status_urls}}

StatusReplies(p) ==
    {Response(h, j, d) :
        h \in {"ok"},
        j \in {[status |-> "completed"], [status |-> "failed", message |-> "boom"],
               [status |-> "error"]}
              \cup {[status |-> "completed", data |-> ps] : ps \in SeqsUpTo(p.pages, MaxPages)}
              \cup p.running,
        d \in p.latencies}
    \cup {Response("error", EmptyDict, d) : d \in p.latencies}

(***************************************************************************)
(* State.                                                                  *)
(***************************************************************************)
VARIABLES
    profile,       \* name of the range of service behaviour of this run
    pc,            \* where the caller's side of the loader stands
    self,          \* the loader's fields: urls, api_key, api_url, mode
    variant,       \* the generator running: "sync" lazy_load, "async" alazy_load
    idx,           \* position of url_item in self.urls
    docs_for_url,  \* documents of url_item still to be yielded
    tasks,         \* the retrievals started: position in urls -> its frame
    yielded,       \* documents handed to the caller so far
    error,         \* the exception that reached the caller
    requests,      \* requests sent to the service so far
    inflight,      \* requests sent and not yet answered
    errlog,        \* log.error calls so far
    script,        \* replay: the responses the service gave in the first load
    cursor,        \* replay: next response of script in the second load
    first          \* replay: what the caller saw of the first load

vars == <<profile, pc, self, variant, idx, docs_for_url, tasks, yielded, error,
          requests, inflight, errlog, script, cursor, first>>

NoError == Error("", "", NoMsg, "", "")
NoSelf == [urls |-> <<>>, api_key |-> "", api_url |-> <<>>, mode |-> ""]
NoRun == [variant |-> "none"]
NoReply == Response("none", EmptyDict, 0)

Modes == {"scrape", "crawl", "other"}
ApiKeys == {"", "key"}
LocatorName(i) == "u" \o ToString(i)
UrlLists(n) == {[i \in 1..k |-> LocatorName(i)] : k \in 0..n}
\* the urls argument: a list of locators or a single string
UrlInputs(n) == {[list |-> q] : q \in UrlLists(n)}
                \cup {[str |-> x] : x \in {"", "u1"}}

\* a retrieval's frame: its position in the code, the locals of _crawl_url
\* and _poll_crawl_status_sync, the thread it runs on, what it returned or
\* raised, the number of status responses and the last response it received
Frame(at, on) ==
    [pc |-> at, on |-> on, job |-> "", returned_url |-> <<>>, status_url |-> <<>>,
     elapsed |-> 0, polls |-> 0, docs |-> <<>>, err |-> NoError, last |-> NoReply]

\* once its result is taken over, only what a retrieval returned or raised
\* is left of it
Consumed(t) == [Frame("consumed", t.on) EXCEPT !.docs = t.docs, !.err = t.err]

Ended(t) == t.pc \in {"returned", "raised"}
Active(t) == t.pc \notin {"returned", "raised", "consumed"}
Waiting(t) == t.pc \in {"scrape_wait", "crawl_wait", "poll_wait"}

Request(method, url, loc) == [method |-> method, url |-> url, loc |-> loc]

Env == CHOOSE p \in Profiles : p.name = profile

Init ==
    /\ profile \in {p.name : p \in Profiles}
    /\ pc = "new"
    /\ self = NoSelf
    /\ variant = "none"
    /\ idx = 0
    /\ docs_for_url = <<>>
    /\ tasks = <<>>
    /\ yielded = <<>>
    /\ error = NoError
    /\ requests = <<>>
    /\ inflight = {}
    /\ errlog = <<>>
    /\ script = <<>>
    /\ cursor = 1
    /\ first = NoRun

(***************************************************************************)
(* FireCrawlLoader.__init__                                                *)
(***************************************************************************)
IsList(arg) == "list" \in DOMAIN arg
Falsy(arg) == IF IsList(arg) THEN arg.list = <<>> ELSE arg.str = ""

\* mutant: the credential is not tested
init_NoKeyCheck(urls, api_key, api_url, mode) ==
    /\ pc = "new"
    /\ IF Falsy(urls)
       THEN /\ pc' = "ctor_failed"
            /\ error' = Error("ValueError", "At least one URL must be provided.",
                              NoMsg, "", "")
            /\ self' = self
       ELSE /\ pc' = "ready"
            /\ error' = error
            /\ self' = [urls |-> IF IsList(urls) THEN urls.list ELSE <<urls.str>>,
                        api_key |-> api_key,
                        api_url |-> RStrip(api_url, {"/"}),
                        mode |-> mode]
    /\ UNCHANGED <<profile, variant, idx, docs_for_url, tasks, yielded, requests,
                   inflight, errlog, script, cursor, first>>

init(urls, api_key, api_url, mode) ==
    /\ pc = "new"
    /\ IF Falsy(urls)
       THEN /\ pc' = "ctor_failed"
            /\ error' = Error("ValueError", "At least one URL must be provided.",
                              NoMsg, "", "")
            /\ self' = self
       ELSE IF api_key = ""
       THEN /\ pc' = "ctor_failed"
            /\ error' = Error("ValueError", "FireCrawl API key must be provided.",
                              NoMsg, "", "")
            /\ self' = self
       ELSE /\ pc' = "ready"
            /\ error' = error
            /\ self' = [urls |-> IF IsList(urls) THEN urls.list ELSE <<urls.str>>,
                        api_key |-> api_key,
                        api_url |-> RStrip(api_url, {"/"}),
                        mode |-> mode]
    /\ UNCHANGED <<profile, variant, idx, docs_for_url, tasks, yielded, requests,
                   inflight, errlog, script, cursor, first>>

Construct ==
    \E urls \in UrlInputs(Env.urls), api_key \in ApiKeys,
       api_url \in Env.api_urls, mode \in Modes :
        init(urls, api_key, api_url, mode)

(***************************************************************************)
(* The service's side of a request: in a first load any response of the    *)
(* range; in the second load of a replay the response given at the same    *)
(* point of the first (a transport error once there is none left).         *)
(***************************************************************************)
Replaying == first # NoRun

Served(range) ==
    IF Replaying
    THEN {IF cursor <= Len(script) THEN script[cursor] ELSE Response("error", EmptyDict, 0)}
    ELSE range

Serve(resp) ==
    /\ script' = IF profile = "replay" /\ ~Replaying THEN Append(script, resp)
                 ELSE script
    /\ cursor' = IF Replaying THEN cursor + 1 ELSE cursor

\* what the caller has seen of a load
Seen == [variant |-> variant, pc |-> pc, yielded |-> yielded, error |-> error,
         requests |-> requests, errlog |-> errlog]

\* a load can be started on a fresh loader; in a replay the other form is
\* started once the first load has ended
CanStart(v) ==
    \/ pc = "ready"
    \/ profile = "replay" /\ pc \in {"done", "raised"} /\ ~Replaying /\ variant # v

StartLoad(v) ==
    /\ CanStart(v)
    /\ first' = IF pc = "ready" THEN first ELSE Seen
    /\ variant' = v
    /\ idx' = 1
    /\ pc' = "loop"
    /\ docs_for_url' = <<>>
    /\ tasks' = <<>>
    /\ yielded' = <<>>
    /\ error' = NoError
    /\ requests' = <<>>
    /\ inflight' = {}
    /\ errlog' = <<>>
    /\ cursor' = 1
    /\ UNCHANGED <<profile, self, script>>

(***************************************************************************)
(* FireCrawlLoader.lazy_load                                               *)
(***************************************************************************)
lazy_load_start == StartLoad("sync")

\* mutant: an unknown mode ends the load with an error
lazy_load_next_UnknownRaises ==
    /\ variant = "sync" /\ pc = "loop"
    /\ IF idx > Len(self.urls)
       THEN /\ pc' = "done"
            /\ UNCHANGED <<tasks, docs_for_url, errlog, error>>
       ELSE IF self.mode = "scrape"
       THEN /\ tasks' = DictSet(tasks, idx, Frame("scrape_send", "caller"))
            /\ pc' = "call"
            /\ UNCHANGED <<docs_for_url, errlog, error>>
       ELSE IF self.mode = "crawl"
       THEN /\ tasks' = DictSet(tasks, idx, Frame("crawl_send", "caller"))
            /\ pc' = "call"
            /\ UNCHANGED <<docs_for_url, errlog, error>>
       ELSE /\ errlog' = Append(errlog, "lazy_load:mode")
            /\ error' = Error("ValueError", "Unknown FireCrawl mode", NoMsg, "", "")
            /\ pc' = "raised"
            /\ UNCHANGED <<tasks, docs_for_url>>
    /\ UNCHANGED <<profile, self, variant, idx, yielded, requests, inflight,
                   script, cursor, first>>

\* head of the for loop: the call of _scrape_url or _crawl_url on the
\* caller's thread, or an empty docs_for_url for an unknown mode
lazy_load_next ==
    /\ variant = "sync" /\ pc = "loop"
    /\ IF idx > Len(self.urls)
       THEN /\ pc' = "done"
            /\ UNCHANGED <<tasks, docs_for_url, errlog>>
       ELSE IF self.mode = "scrape"
       THEN /\ tasks' = DictSet(tasks, idx, Frame("scrape_send", "caller"))
            /\ pc' = "call"
            /\ UNCHANGED <<docs_for_url, errlog>>
       ELSE IF self.mode = "crawl"
       THEN /\ tasks' = DictSet(tasks, idx, Frame("crawl_send", "caller"))
            /\ pc' = "call"
            /\ UNCHANGED <<docs_for_url, errlog>>
       ELSE /\ errlog' = Append(errlog, "lazy_load:mode")
            /\ docs_for_url' = <<>>
            /\ pc' = "yield"
            /\ UNCHANGED tasks
    /\ UNCHANGED <<profile, self, variant, idx, yielded, error, requests, inflight,
                   script, cursor, first>>

\* mutant: a failed retrieval is skipped and the loop goes on
lazy_load_resume_skip ==
    /\ variant = "sync" /\ pc = "call"
    /\ idx \in DOMAIN tasks /\ Ended(tasks[idx])
    /\ docs_for_url' = tasks[idx].docs
    /\ pc' = "yield"
    /\ error' = error
    /\ tasks' = [tasks EXCEPT ![idx] = Consumed(@)]
    /\ UNCHANGED <<profile, self, variant, idx, yielded, requests, inflight, errlog,
                   script, cursor, first>>

\* the call returns docs_for_url, or its exception leaves the generator
lazy_load_resume ==
    /\ variant = "sync" /\ pc = "call"
    /\ idx \in DOMAIN tasks /\ Ended(tasks[idx])
    /\ IF tasks[idx].pc = "returned"
       THEN /\ docs_for_url' = tasks[idx].docs
            /\ pc' = "yield"
            /\ error' = error
       ELSE /\ error' = tasks[idx].err
            /\ pc' = "raised"
            /\ docs_for_url' = docs_for_url
    /\ tasks' = [tasks EXCEPT ![idx] = Consumed(@)]
    /\ UNCHANGED <<profile, self, variant, idx, yielded, requests, inflight, errlog,
                   script, cursor, first>>

\* mutant: the documents of a locator are handed out last first
lazy_load_yield_reversed ==
    /\ variant = "sync" /\ pc = "yield"
    /\ IF docs_for_url = <<>>
       THEN /\ idx' = idx + 1
            /\ pc' = "loop"
            /\ UNCHANGED <<yielded, docs_for_url>>
       ELSE LET n == Len(docs_for_url) IN
            /\ yielded' = Append(yielded, [doc |-> docs_for_url[n].doc,
                                            entry |-> docs_for_url[n].entry,
                                            loc |-> idx])
            /\ docs_for_url' = SubSeq(docs_for_url, 1, n - 1)
            /\ UNCHANGED <<idx, pc>>
    /\ UNCHANGED <<profile, self, variant, tasks, error, requests, inflight, errlog,
                   script, cursor, first>>

\* for doc in docs_for_url: yield doc; then the next url_item
lazy_load_yield ==
    /\ variant = "sync" /\ pc = "yield"
    /\ IF docs_for_url = <<>>
       THEN /\ idx' = idx + 1
            /\ pc' = "loop"
            /\ UNCHANGED <<yielded, docs_for_url>>
       ELSE /\ yielded' = Append(yielded, [doc |-> Head(docs_for_url).doc,
                                            entry |-> Head(docs_for_url).entry,
                                            loc |-> idx])
            /\ docs_for_url' = Tail(docs_for_url)
            /\ UNCHANGED <<idx, pc>>
    /\ UNCHANGED <<profile, self, variant, tasks, error, requests, inflight, errlog,
                   script, cursor, first>>

(***************************************************************************)
(* FireCrawlLoader.alazy_load                                              *)
(***************************************************************************)
alazy_load_start == StartLoad("async")

\* mutant: the retrieval is handed to a worker thread and not awaited
alazy_load_next_eager ==
    /\ variant = "async" /\ pc = "loop"
    /\ IF idx > Len(self.urls)
       THEN /\ pc' = "done"
            /\ UNCHANGED <<tasks, idx>>
       ELSE /\ tasks' = DictSet(tasks, idx,
                                Frame(IF self.mode = "crawl" THEN "crawl_send"
                                      ELSE "scrape_send", "worker"))
            /\ idx' = idx + 1
            /\ pc' = pc
    /\ UNCHANGED <<profile, self, variant, docs_for_url, yielded, error, requests,
                   inflight, errlog, script, cursor, first>>

\* head of the for loop: loop.run_in_executor hands _scrape_url or
\* _crawl_url to a worker thread and the coroutine awaits the future
alazy_load_next ==
    /\ variant = "async" /\ pc = "loop"
    /\ IF idx > Len(self.urls)
       THEN /\ pc' = "done"
            /\ UNCHANGED <<tasks, docs_for_url, errlog>>
       ELSE IF self.mode = "scrape"
       THEN /\ tasks' = DictSet(tasks, idx, Frame("scrape_send", "worker"))
            /\ pc' = "await"
            /\ UNCHANGED <<docs_for_url, errlog>>
       ELSE IF self.mode = "crawl"
       THEN /\ tasks' = DictSet(tasks, idx, Frame("crawl_send", "worker"))
            /\ pc' = "await"
            /\ UNCHANGED <<docs_for_url, errlog>>
       ELSE /\ errlog' = Append(errlog, "alazy_load:mode")
            /\ docs_for_url' = <<>>
            /\ pc' = "yield"
            /\ UNCHANGED tasks
    /\ UNCHANGED <<profile, self, variant, idx, yielded, error, requests, inflight,
                   script, cursor, first>>

\* mutant: a failed retrieval is skipped and the loop goes on
alazy_load_resume_skip ==
    /\ variant = "async" /\ pc = "await"
    /\ idx \in DOMAIN tasks /\ Ended(tasks[idx])
    /\ docs_for_url' = tasks[idx].docs
    /\ pc' = "yield"
    /\ error' = error
    /\ tasks' = [tasks EXCEPT ![idx] = Consumed(@)]
    /\ UNCHANGED <<profile, self, variant, idx, yielded, requests, inflight, errlog,
                   script, cursor, first>>

\* the future is done: await returns docs_for_url or raises its exception
alazy_load_resume ==
    /\ variant = "async" /\ pc = "await"
    /\ idx \in DOMAIN tasks /\ Ended(tasks[idx])
    /\ IF tasks[idx].pc = "returned"
       THEN /\ docs_for_url' = tasks[idx].docs
            /\ pc' = "yield"
            /\ error' = error
       ELSE /\ error' = tasks[idx].err
            /\ pc' = "raised"
            /\ docs_for_url' = docs_for_url
    /\ tasks' = [tasks EXCEPT ![idx] = Consumed(@)]
    /\ UNCHANGED <<profile, self, variant, idx, yielded, requests, inflight, errlog,
                   script, cursor, first>>

alazy_load_yield ==
    /\ variant = "async" /\ pc = "yield"
    /\ IF docs_for_url = <<>>
       THEN /\ idx' = idx + 1
            /\ pc' = "loop"
            /\ UNCHANGED <<yielded, docs_for_url>>
       ELSE /\ yielded' = Append(yielded, [doc |-> Head(docs_for_url).doc,
                                            entry |-> Head(docs_for_url).entry,
                                            loc |-> idx])
            /\ docs_for_url' = Tail(docs_for_url)
            /\ UNCHANGED <<idx, pc>>
    /\ UNCHANGED <<profile, self, variant, tasks, error, requests, inflight, errlog,
                   script, cursor, first>>

(***************************************************************************)
(* FireCrawlLoader._scrape_url                                             *)
(***************************************************************************)
\* a retrieval ends: it returns its documents or raises
Finish(t, r, resp) ==
    IF r.kind = "return"
    THEN [t EXCEPT !.pc = "returned", !.docs = r.docs, !.last = resp]
    ELSE [t EXCEPT !.pc = "raised", !.err = r.err, !.last = resp]

\* requests.post(scrape_url, ..., timeout=30)
scrape_url_post(i) ==
    /\ tasks[i].pc = "scrape_send"
    /\ requests' = Append(requests, Request("POST", urljoin(self.api_url, ScrapePath), i))
    /\ inflight' = inflight \cup {Request("POST", urljoin(self.api_url, ScrapePath), i)}
    /\ tasks' = [tasks EXCEPT ![i].pc = "scrape_wait"]
    /\ UNCHANGED <<profile, pc, self, variant, idx, docs_for_url, yielded, error,
                   errlog, script, cursor, first>>

\* the response arrives (or the request times out) and the rest of
\* _scrape_url runs
scrape_url_reply(i) ==
    /\ tasks[i].pc = "scrape_wait"
    /\ \E resp \in Served(ScrapeReplies(Env)) :
          LET r == scrape_url_result(self.urls[i], resp) IN
          /\ tasks' = [tasks EXCEPT ![i] = Finish(@, r, resp)]
          /\ errlog' = errlog \o r.logs
          /\ Serve(resp)
    /\ inflight' = {q \in inflight : q.loc # i}
    /\ UNCHANGED <<profile, pc, self, variant, idx, docs_for_url, yielded, error,
                   requests, first>>

(***************************************************************************)
(* FireCrawlLoader._crawl_url                                              *)
(***************************************************************************)
\* requests.post(crawl_submit_url, ..., timeout=30)
crawl_url_post(i) ==
    /\ tasks[i].pc = "crawl_send"
    /\ requests' = Append(requests, Request("POST", urljoin(self.api_url, CrawlPath), i))
    /\ inflight' = inflight \cup {Request("POST", urljoin(self.api_url, CrawlPath), i)}
    /\ tasks' = [tasks EXCEPT ![i].pc = "crawl_wait"]
    /\ UNCHANGED <<profile, pc, self, variant, idx, docs_for_url, yielded, error,
                   errlog, script, cursor, first>>

\* the submission's response arrives: the job id and status URL are taken
\* from it and _poll_crawl_status_sync is entered (start_time is now)
crawl_url_reply(i) ==
    /\ tasks[i].pc = "crawl_wait"
    /\ \E resp \in Served(SubmitReplies(Env)) :
          LET r == crawl_url_result(self.urls[i], self.api_url, resp) IN
          /\ IF r.kind = "poll"
             THEN /\ tasks' = [tasks EXCEPT ![i].pc = "poll_check",
                                            ![i].job = r.job,
                                            ![i].returned_url = resp.json["url"],
                                            ![i].status_url = r.status_url,
                                            ![i].elapsed = 0,
                                            ![i].last = resp]
                  /\ errlog' = errlog
             ELSE /\ tasks' = [tasks EXCEPT ![i] = Finish(@, r, resp)]
                  /\ errlog' = errlog \o r.logs
          /\ Serve(resp)
    /\ inflight' = {q \in inflight : q.loc # i}
    /\ UNCHANGED <<profile, pc, self, variant, idx, docs_for_url, yielded, error,
                   requests, first>>

(***************************************************************************)
(* FireCrawlLoader._poll_crawl_status_sync                                 *)
(***************************************************************************)
\* head of the while loop: the deadline test, then requests.get(status_url)
poll_check(i) ==
    /\ tasks[i].pc = "poll_check"
    /\ IF DeadlinePassed(tasks[i].elapsed)
       THEN LET r == TimeoutError(tasks[i].job, self.urls[i]) IN
            /\ tasks' = [tasks EXCEPT ![i].pc = "raised", ![i].err = r.err]
            /\ errlog' = errlog \o r.logs
            /\ UNCHANGED <<requests, inflight>>
       ELSE /\ requests' = Append(requests, Request("GET", tasks[i].status_url, i))
            /\ inflight' = inflight \cup {Request("GET", tasks[i].status_url, i)}
            /\ tasks' = [tasks EXCEPT ![i].pc = "poll_wait"]
            /\ errlog' = errlog
    /\ UNCHANGED <<profile, pc, self, variant, idx, docs_for_url, yielded, error,
                   script, cursor, first>>

\* the status response arrives after resp.took seconds; the loop either
\* ends or sleeps poll_interval seconds and starts over
poll_reply(i) ==
    /\ tasks[i].pc = "poll_wait"
    /\ \E resp \in Served(StatusReplies(Env)) :
          LET r == poll_crawl_status_result(tasks[i].job, self.urls[i], resp)
              now == tasks[i].elapsed + resp.took
          IN
          /\ IF r.kind = "sleep"
             THEN /\ tasks' = [tasks EXCEPT ![i].pc = "poll_check",
                                            ![i].elapsed = now + poll_interval,
                                            ![i].polls = @ + 1,
                                            ![i].last = resp]
                  /\ errlog' = errlog
             ELSE /\ tasks' = [tasks EXCEPT ![i] = Finish([@ EXCEPT !.elapsed = now,
                                                                     !.polls = @ + 1],
                                                          r, resp)]
                  /\ errlog' = errlog \o r.logs
          /\ Serve(resp)
    /\ inflight' = {q \in inflight : q.loc # i}
    /\ UNCHANGED <<profile, pc, self, variant, idx, docs_for_url, yielded, error,
                   requests, first>>

(***************************************************************************)
(* Specifications.                                                         *)
(***************************************************************************)
Next ==
    \/ Construct
    \/ lazy_load_start
    \/ lazy_load_next
    \/ lazy_load_resume
    \/ lazy_load_yield
    \/ alazy_load_start
    \/ alazy_load_next
    \/ alazy_load_resume
    \/ alazy_load_yield
    \/ \E i \in DOMAIN tasks : scrape_url_post(i)
    \/ \E i \in DOMAIN tasks : scrape_url_reply(i)
    \/ \E i \in DOMAIN tasks : crawl_url_post(i)
    \/ \E i \in DOMAIN tasks : crawl_url_reply(i)
    \/ \E i \in DOMAIN tasks : poll_check(i)
    \/ \E i \in DOMAIN tasks : poll_reply(i)

Spec == Init /\ [][Next]_vars

\* Every step of the loader's own code is eventually taken, every POST is
\* answered or times out after 30 seconds (timeout=30), and the generator is
\* consumed to its end.  The status request is sent without a timeout:
\* nothing in the code bounds the wait for its response.
OwnStep ==
    \/ Construct
    \/ lazy_load_start \/ lazy_load_next \/ lazy_load_resume \/ lazy_load_yield
    \/ alazy_load_start \/ alazy_load_next \/ alazy_load_resume \/ alazy_load_yield
    \/ \E i \in DOMAIN tasks :
          \/ scrape_url_post(i) \/ scrape_url_reply(i)
          \/ crawl_url_post(i) \/ crawl_url_reply(i)
          \/ poll_check(i)

FairSpec == Spec /\ WF_vars(OwnStep)

\* FairSpec for a service that answers every status request.
StatusArrives == \E i \in DOMAIN tasks : poll_reply(i)
AnsweredSpec == FairSpec /\ WF_vars(StatusArrives)

(***************************************************************************)
(* Properties.                                                             *)
(***************************************************************************)
Positions == 1..(MaxUrls + 2)
Started == DOMAIN tasks

\* the text of a page as the service reports it: the markdown field when
\* the page has one, else the content field, else nothing
PageText(d) ==
    IF "markdown" \in DOMAIN d THEN d["markdown"]
    ELSE IF "content" \in DOMAIN d THEN d["content"]
    ELSE <<>>

IsBlank(text) == \A k \in 1..Len(text) : text[k] \in Whitespace

EndsWith(s, p) == Len(s) >= Len(p) /\ SubSeq(s, Len(s) - Len(p) + 1, Len(s)) = p

RequestsFor(i) == {k \in DOMAIN requests : requests[k].loc = i}
YieldedFor(i) == {k \in DOMAIN yielded : yielded[k].loc = i}

\* the documents handed to the caller for locator i, in order
RECURSIVE YieldedSeq(_, _)
YieldedSeq(i, k) ==
    IF k > Len(yielded) THEN <<>>
    ELSE IF yielded[k].loc = i
    THEN <<[doc |-> yielded[k].doc, entry |-> yielded[k].entry]>> \o YieldedSeq(i, k + 1)
    ELSE YieldedSeq(i, k + 1)

\* the page of a successful scrape response
ScrapedPage(resp) == DictGet(resp.json, "data", EmptyDict)

\* C1: in SCRAPE mode a complete run of the load has sent, for every
\* locator, exactly one request, a POST to the scrape endpoint, and has
\* yielded at most one document for it, namely what its retrieval returned;
\* and a retrieval whose response carries empty or whitespace-only text
\* returns no document.
C1_ScrapeOnePostOneDoc ==
    /\ (self.mode = "scrape" /\ pc = "done") =>
          \A i \in 1..Len(self.urls) :
             /\ Cardinality(RequestsFor(i)) = 1
             /\ \A k \in RequestsFor(i) :
                   requests[k].method = "POST" /\ EndsWith(requests[k].url, ScrapePath)
             /\ Cardinality(YieldedFor(i)) <= 1
             /\ i \in Started /\ YieldedSeq(i, 1) = tasks[i].docs
    /\ self.mode = "scrape" =>
          \A i \in Started :
             (tasks[i].pc = "returned" /\ IsBlank(PageText(ScrapedPage(tasks[i].last))))
                => tasks[i].docs = <<>>

\* C1 witness: a complete scrape of two locators, one of which gave a
\* document and the other none.
C1_Witness ==
    /\ self.mode = "scrape" /\ pc = "done"
    /\ Len(self.urls) = 2 /\ Len(requests) = 2
    /\ Len(yielded) = 1

\* the page entries of a completed status response
CompletedPages(resp) == DictGet(resp.json, "data", <<>>)
GotCompleted(t) ==
    t.polls > 0 /\ t.last.http = "ok" /\ DictGet(t.last.json, "status", "") = "completed"

\* C2: in CRAWL mode, when the status response is completed, the documents
\* returned for the locator are in one-to-one correspondence with the page
\* entries of its data whose text is non-empty: every such entry gives
\* exactly one document, carrying that entry's text, and no other entry
\* gives one.
C2_CrawlOneDocPerPage ==
    self.mode = "crawl" =>
       \A i \in Started :
          GotCompleted(tasks[i]) =>
             LET pages == CompletedPages(tasks[i].last)
                 docs == tasks[i].docs
             IN /\ tasks[i].pc = "returned"
                /\ \A a, b \in DOMAIN docs : a # b => docs[a].entry # docs[b].entry
                /\ {docs[k].entry : k \in DOMAIN docs}
                      = {j \in DOMAIN pages : PageText(pages[j]) # <<>>}
                /\ \A k \in DOMAIN docs :
                      docs[k].doc.page_content = PageText(pages[docs[k].entry])

\* C2 witness: a completed job of two pages, the first empty and the second
\* whitespace-only, for which one document was returned.
C2_Witness ==
    /\ self.mode = "crawl"
    /\ \E i \in Started :
          /\ GotCompleted(tasks[i])
          /\ Len(CompletedPages(tasks[i].last)) = 2
          /\ PageText(CompletedPages(tasks[i].last)[1]) = <<>>
          /\ PageText(CompletedPages(tasks[i].last)[2]) = <<" ">>
          /\ Len(tasks[i].docs) = 1

\* C3: the documents are yielded in the order of the locators, and within
\* one locator in the order of the page entries they were built from (and
\* a retrieval returns them in that order).
C3_YieldOrder ==
    /\ \A a, b \in DOMAIN yielded :
          a < b => \/ yielded[a].loc < yielded[b].loc
                   \/ /\ yielded[a].loc = yielded[b].loc
                      /\ yielded[a].entry < yielded[b].entry
    /\ \A i \in Started :
          \A a, b \in DOMAIN tasks[i].docs :
             a < b => tasks[i].docs[a].entry < tasks[i].docs[b].entry

\* C3 witness: a crawl of two locators that has yielded two pages of the
\* first and then a page of the second.
C3_Witness ==
    /\ self.mode = "crawl"
    /\ Len(yielded) >= 3
    /\ yielded[1].loc = 1 /\ yielded[2].loc = 1 /\ yielded[3].loc = 2
    /\ yielded[1].doc # yielded[2].doc

PollStarted(i) == i \in Started /\ tasks[i].pc \in {"poll_check", "poll_wait"}
Over(i) == i \in Started /\ tasks[i].pc \in {"returned", "raised", "consumed"}

\* the retrieval raised the timeout error, which names job and locator
TimedOut(i) ==
    /\ tasks[i].err.exc = "Exception"
    /\ tasks[i].err.text = "Timeout waiting for FireCrawl job"
    /\ tasks[i].err.job # "" /\ tasks[i].err.url = self.urls[i]

\* the poll loop ended on a status response: completed (documents were
\* returned), failed or error, or a response that was no status at all
EndedOnResponse(i) ==
    \/ tasks[i].err = NoError
    \/ tasks[i].err.text = "FireCrawl job failed: "
    \/ tasks[i].err.exc \in {"HTTPError", "TypeError"}

\* C4: once polling of a job has started, the retrieval ends: on a status
\* response that ends the loop or, when none does within the deadline, with
\* the timeout error naming the job and the locator; the poll loop never
\* runs forever.
C4_PollLoopEnds ==
    \A i \in Positions :
       PollStarted(i) ~> (Over(i) /\ (EndedOnResponse(i) \/ TimedOut(i)))

GotFailed(t) ==
    t.polls > 0 /\ t.last.http = "ok"
    /\ DictGet(t.last.json, "status", "") \in {"failed", "error"}

\* C5: in CRAWL mode a status response with status failed or error makes
\* the retrieval raise an error carrying the message the response reports,
\* and the locator gets no document.
C5_FailedStatusRaises ==
    self.mode = "crawl" =>
       \A i \in Started :
          GotFailed(tasks[i]) =>
             /\ tasks[i].pc = "raised"
             /\ tasks[i].err.exc = "Exception"
             /\ tasks[i].err.text = "FireCrawl job failed: "
             /\ "message" \in DOMAIN tasks[i].last.json
                   => tasks[i].err.arg = tasks[i].last.json["message"]
             /\ tasks[i].docs = <<>>
             /\ YieldedFor(i) = {}

\* C5 witness: a job reported failed with a message after one status
\* response that left it running.
C5_Witness ==
    /\ self.mode = "crawl"
    /\ \E i \in Started :
          /\ GotFailed(tasks[i])
          /\ tasks[i].polls = 2
          /\ tasks[i].last.json["status"] = "failed"
          /\ tasks[i].err.arg = "boom"

\* a step of a running load
LoadStep ==
    \/ lazy_load_next \/ lazy_load_resume \/ lazy_load_yield
    \/ alazy_load_next \/ alazy_load_resume \/ alazy_load_yield
    \/ \E i \in DOMAIN tasks :
          \/ scrape_url_post(i) \/ scrape_url_reply(i)
          \/ crawl_url_post(i) \/ crawl_url_reply(i)
          \/ poll_check(i) \/ poll_reply(i)

\* C6: a retrieval that raised hands its error to the caller of lazy_load
\* or alazy_load and the load stops there: the documents of the locators
\* before it were yielded, nothing was requested or yielded for a later
\* locator, and the load takes no further step.
C6_FailureHaltsLoad ==
    /\ \A i \in Started :
          (tasks[i].pc = "consumed" /\ tasks[i].err # NoError)
             => (pc = "raised" /\ idx = i /\ error = tasks[i].err)
    /\ pc = "raised" =>
          /\ error # NoError
          /\ Started = 1..idx
          /\ tasks[idx].err = error
          /\ \A k \in DOMAIN requests : requests[k].loc <= idx
          /\ \A k \in DOMAIN yielded : yielded[k].loc < idx
          /\ \A j \in 1..(idx - 1) : YieldedSeq(j, 1) = tasks[j].docs
          /\ inflight = {}
          /\ ~ENABLED LoadStep

\* C6 witness: the asynchronous load of two locators ended by the timeout
\* of the second after a document of the first was yielded.
C6_Witness ==
    /\ pc = "raised" /\ variant = "async"
    /\ idx = 2 /\ Len(self.urls) = 2
    /\ yielded # <<>>
    /\ error.text = "Timeout waiting for FireCrawl job"

\* C7: with the service answering the second load as it answered the first,
\* the second load (the other of lazy_load and alazy_load) ends as the first
\* did, with the same documents yielded in the same order, the same requests
\* sent in the same order and the same error.
C7_AsyncEqualsSync ==
    (Replaying /\ pc \in {"done", "raised"}) =>
       /\ variant # first.variant
       /\ pc = first.pc
       /\ yielded = first.yielded
       /\ requests = first.requests
       /\ error = first.error
       /\ cursor = Len(script) + 1

\* C7 witness: alazy_load run after lazy_load, both failing at the second
\* locator after yielding a document of the first.
C7_Witness ==
    /\ Replaying /\ variant = "async" /\ first.variant = "sync"
    /\ pc = "raised" /\ idx = 2
    /\ yielded # <<>> /\ yielded = first.yielded
    /\ Len(requests) >= 4

\* C8: at any moment at most one retrieval is active and at most one request
\* is in flight; the active retrieval is that of the current locator, every
\* earlier one has returned and been taken over, and in alazy_load it runs
\* on a worker thread.
C8_OneAtATime ==
    /\ Cardinality({i \in Started : Active(tasks[i])}) <= 1
    /\ Cardinality(inflight) <= 1
    /\ \A i \in Started :
          Active(tasks[i]) =>
             /\ i = idx /\ pc \in {"call", "await"}
             /\ \A j \in Started \ {i} : tasks[j].pc = "consumed"
             /\ tasks[i].on = (IF variant = "async" THEN "worker" ELSE "caller")
             /\ \A q \in inflight : q.loc = i

\* C8 witness: alazy_load waiting for the second status response of the
\* second locator's job, the first locator's retrieval being over.
C8_Witness ==
    /\ variant = "async" /\ pc = "await" /\ idx = 2
    /\ tasks[1].pc = "consumed"
    /\ tasks[2].pc = "poll_wait" /\ tasks[2].polls = 1 /\ tasks[2].on = "worker"
    /\ Cardinality(inflight) = 1

\* C9: no document that is returned by a retrieval or yielded to the caller
\* has empty text.
C9_NoEmptyDocument ==
    /\ \A k \in DOMAIN yielded : yielded[k].doc.page_content # <<>>
    /\ \A i \in Started :
          \A k \in DOMAIN tasks[i].docs : tasks[i].docs[k].doc.page_content # <<>>

\* C9 witness: a crawl whose first yielded document is built from the second
\* page entry, the first entry having been dropped.
C9_Witness ==
    /\ self.mode = "crawl"
    /\ yielded # <<>> /\ yielded[1].entry = 2

\* the address the crawl submission of locator i was sent to
SubmitUrl(i) ==
    requests[CHOOSE k \in RequestsFor(i) : requests[k].method = "POST"].url

\* C10: when the submission went to an http:// address and the returned
\* polling address starts with https://, the address polled is the returned
\* one with only its scheme rewritten to http://; otherwise it is the
\* returned address unmodified.
C10_OnlySchemeRewritten ==
    self.mode = "crawl" =>
       \A i \in Started :
          PollStarted(i) =>
             LET returned == tasks[i].returned_url
                 used == tasks[i].status_url
             IN IF StartsWith(SubmitUrl(i), HTTP) /\ StartsWith(returned, HTTPS)
                THEN used = HTTP \o Drop(returned, Len(HTTPS))
                ELSE used = returned

\* C11: a construction with an empty list of locators, an empty locator
\* string or an empty credential fails at once with a ValueError; when it has
\* failed no request has been sent and no retrieval started, there is no
\* loader (a loader that exists has a locator and a credential), and nothing
\* can be done afterwards: no load can be started.
C11_EmptyInputFailsConstruction ==
    /\ [](pc = "ctor_failed" =>
             /\ error.exc = "ValueError"
             /\ self = NoSelf
             /\ requests = <<>> /\ inflight = {} /\ tasks = <<>>)
    /\ [](pc \notin {"new", "ctor_failed"} =>
             self.urls # <<>> /\ self.api_key # "")
    /\ [][pc # "ctor_failed"]_vars
    /\ [][\A urls \in UrlInputs(MaxUrls), api_key \in ApiKeys,
             api_url \in ApiUrls, mode \in Modes :
             (init(urls, api_key, api_url, mode) /\ (Falsy(urls) \/ api_key = ""))
                => pc' = "ctor_failed"]_vars

\* C11 witness: a construction with a locator and an empty credential failed.
C11_Witness ==
    /\ pc = "ctor_failed"
    /\ error.text = "FireCrawl API key must be provided."
    /\ requests = <<>>

\* the job was reported completed without a page entry
EmptyCompleted(t) == GotCompleted(t) /\ CompletedPages(t.last) = <<>>

\* C12: in CRAWL mode a status response of completed whose data is absent or
\* has no entry makes the retrieval return an empty list of documents and
\* raise nothing; and a retrieval that returned without error does not stop
\* the load: its documents are yielded and the next locator's retrieval is
\* started, up to the last locator.
C12_EmptyCompletedIsNoError ==
    self.mode = "crawl" =>
       /\ \A i \in Started :
             EmptyCompleted(tasks[i]) =>
                /\ tasks[i].pc = "returned"
                /\ tasks[i].docs = <<>>
                /\ tasks[i].err = NoError
       /\ \A i \in Started :
             (tasks[i].pc = "consumed" /\ tasks[i].err = NoError) =>
                /\ idx >= i
                /\ idx = i => pc = "yield"
                /\ pc = "raised" => idx > i
                /\ (idx > i /\ idx <= Len(self.urls) /\ pc # "loop") => idx \in Started
       /\ pc = "done" => Started = 1..Len(self.urls)

\* C12 witness: the job of the first of two locators was reported completed
\* with no data at all and its retrieval has returned.
C12_Witness ==
    /\ self.mode = "crawl" /\ Len(self.urls) = 2
    /\ 1 \in Started
    /\ EmptyCompleted(tasks[1])
    /\ "data" \notin DOMAIN tasks[1].last.json
    /\ tasks[1].pc = "returned"

\* a step of one of the two generators
GeneratorStep ==
    \/ lazy_load_next \/ lazy_load_yield
    \/ alazy_load_next \/ alazy_load_yield

\* C13: with a mode that is neither SCRAPE nor CRAWL a load yields no
\* document, sends no request, starts no retrieval and raises nothing; it
\* passes every locator in turn (logging each once) and, never being stuck,
\* ends normally after the last one.
C13_UnknownModeYieldsNothing ==
    self.mode = "other" =>
       /\ yielded = <<>> /\ docs_for_url = <<>>
       /\ requests = <<>> /\ tasks = <<>>
       /\ error = NoError
       /\ pc \in {"ready", "loop", "yield", "done"}
       /\ pc = "loop" => (Len(errlog) = idx - 1 /\ ENABLED GeneratorStep)
       /\ pc = "yield" => (Len(errlog) = idx /\ idx <= Len(self.urls)
                           /\ ENABLED GeneratorStep)
       /\ pc = "done" => (idx = Len(self.urls) + 1 /\ Len(errlog) = Len(self.urls))

\* C13 witness: alazy_load over two locators with an unknown mode has ended.
C13_Witness ==
    /\ self.mode = "other" /\ variant = "async"
    /\ Len(self.urls) = 2
    /\ pc = "done" /\ Len(errlog) = 2

\* the last response retrieval t received is that of its crawl submission
AfterSubmit(t) == t.pc # "consumed" /\ t.polls = 0 /\ t.last.http = "ok"

\* the submission response lacks the job id or the polling address
LacksField(json) == DictGet(json, "id", "") = "" \/ DictGet(json, "url", <<>>) = <<>>

SubmitFailed(t) == t.err.text = "FireCrawl crawl submission failed: "

StatusRequestsFor(i) == {k \in RequestsFor(i) : requests[k].method = "GET"}

\* C14: in CRAWL mode a submission response without a job id or without a
\* polling address makes the retrieval raise the submission error, with the
\* message of the response when it has one, and return no document; and for
\* a submission that failed so no status request is ever sent and polling
\* is never entered.
C14_IncompleteSubmissionRaises ==
    self.mode = "crawl" =>
       \A i \in Started :
          /\ (AfterSubmit(tasks[i]) /\ LacksField(tasks[i].last.json)) =>
                /\ tasks[i].pc = "raised"
                /\ tasks[i].err.exc = "Exception"
                /\ SubmitFailed(tasks[i])
                /\ "message" \in DOMAIN tasks[i].last.json
                      => tasks[i].err.arg = tasks[i].last.json["message"]
                /\ tasks[i].docs = <<>>
          /\ SubmitFailed(tasks[i]) =>
                /\ StatusRequestsFor(i) = {}
                /\ Cardinality(RequestsFor(i)) = 1
                /\ tasks[i].job = "" /\ tasks[i].status_url = <<>>
                /\ YieldedFor(i) = {}

\* C14 witness: a submission response with a polling address and no job id
\* ended the retrieval of the second locator.
C14_Witness ==
    /\ self.mode = "crawl"
    /\ 2 \in Started
    /\ AfterSubmit(tasks[2])
    /\ "url" \in DOMAIN tasks[2].last.json /\ "id" \notin DOMAIN tasks[2].last.json
    /\ tasks[2].pc = "raised"

\* C15: every document returned by a retrieval or yielded to the caller is
\* tagged with the mode that produced it: firecrawl_mode is "scrape" for a
\* document of _scrape_url and "crawl" for one of _crawl_url, whatever
\* metadata fields the service reported for the page.
C15_ProvenanceTag ==
    /\ \A k \in DOMAIN yielded :
          yielded[k].doc.metadata["firecrawl_mode"] = self.mode
    /\ \A i \in Started :
          \A k \in DOMAIN tasks[i].docs :
             tasks[i].docs[k].doc.metadata["firecrawl_mode"] = self.mode

\* the last status response of t left the job running
NonTerminal(t) ==
    /\ t.polls > 0 /\ t.last.http = "ok"
    /\ DictGet(t.last.json, "status", "") \notin {"completed", "failed", "error"}

\* the time since polling began is one poll interval for every status
\* response so far plus the time the status requests took
SleptEachTime(t) ==
    \E slow \in 0..t.polls :
       t.elapsed = t.polls * poll_interval + slow * SlowGet

\* C16: a status response of completed, failed or error ends the poll loop:
\* the retrieval is over and as many status requests were sent for the job
\* as responses received; after a response with any other status the
\* retrieval is still polling, having slept one poll interval after each
\* response: it is before or in its next status request, or it has given up
\* at the deadline.
C16_TerminalEndsPolling ==
    self.mode = "crawl" =>
       \A i \in Started :
          /\ (GotCompleted(tasks[i]) \/ GotFailed(tasks[i])) =>
                /\ Ended(tasks[i])
                /\ Cardinality(StatusRequestsFor(i)) = tasks[i].polls
          /\ NonTerminal(tasks[i]) =>
                /\ \/ tasks[i].pc = "poll_check"
                      /\ Cardinality(StatusRequestsFor(i)) = tasks[i].polls
                   \/ tasks[i].pc = "poll_wait"
                      /\ Cardinality(StatusRequestsFor(i)) = tasks[i].polls + 1
                   \/ tasks[i].pc = "raised" /\ TimedOut(i)
                      /\ Cardinality(StatusRequestsFor(i)) = tasks[i].polls
                /\ SleptEachTime(tasks[i])

\* the markdown field of a page provides no text
NoMarkdown(d) == "markdown" \notin DOMAIN d \/ d["markdown"] = <<>>

\* the scrape of retrieval t was answered with a successful response
GotScraped(t) ==
    /\ t.pc = "returned" /\ t.last.http = "ok"
    /\ DictGet(t.last.json, "success", FALSE)

\* C17: a scrape response or a crawled page entry whose markdown is absent
\* or empty and whose content holds text gives a document whose text is the
\* content field.
C17_ContentFallback ==
    /\ self.mode = "scrape" =>
          \A i \in Started :
             GotScraped(tasks[i]) =>
                LET d == ScrapedPage(tasks[i].last) IN
                (NoMarkdown(d) /\ ~IsBlank(DictGet(d, "content", <<>>))) =>
                   /\ Len(tasks[i].docs) = 1
                   /\ tasks[i].docs[1].doc.page_content = d["content"]
    /\ self.mode = "crawl" =>
          \A i \in Started :
             GotCompleted(tasks[i]) =>
                LET pages == CompletedPages(tasks[i].last) IN
                \A j \in DOMAIN pages :
                   (NoMarkdown(pages[j]) /\ DictGet(pages[j], "content", <<>>) # <<>>) =>
                      \E k \in DOMAIN tasks[i].docs :
                         /\ tasks[i].docs[k].entry = j
                         /\ tasks[i].docs[k].doc.page_content = pages[j]["content"]

\* C18: whenever the constructor, a retrieval or a load has raised an error,
\* at least one error log entry has been written.
C18_FailuresLogged ==
    /\ pc \in {"ctor_failed", "raised"} => errlog # <<>>
    /\ error # NoError => errlog # <<>>
    /\ \A i \in Started : tasks[i].pc = "raised" => errlog # <<>>

\* the path of the endpoint a retrieval posts to
EndpointPath == IF self.mode = "scrape" THEN ScrapePath ELSE CrawlPath

\* C19: every POST goes to the configured base address (less its trailing
\* slashes, which is what self.api_url holds) followed by /v1/scrape in
\* SCRAPE mode and by /v1/crawl in CRAWL mode.
C19_EndpointKeepsBase ==
    \A k \in DOMAIN requests :
       requests[k].method = "POST" => requests[k].url = self.api_url \o EndpointPath

\* C20: a status request is sent only while no more than max_wait_time
\* seconds have passed since polling began; the timeout error is raised only
\* at the head of the loop, after a response that left the job running, when
\* more than max_wait_time seconds have passed (a response that arrives
\* later than that is still handled); so a job receives at most
\* max_wait_time / poll_interval + 1 = 121 status requests.
C20_DeadlineBeforeEachRequest ==
    self.mode = "crawl" =>
       \A i \in Started :
          /\ tasks[i].pc = "poll_wait" => tasks[i].elapsed <= max_wait_time
          /\ (tasks[i].pc = "raised" /\ TimedOut(i)) =>
                /\ tasks[i].elapsed > max_wait_time
                /\ NonTerminal(tasks[i])
                /\ Cardinality(StatusRequestsFor(i)) = tasks[i].polls
          /\ Cardinality(StatusRequestsFor(i)) <= max_wait_time \div poll_interval + 1

\* C20 witness: a job that stayed running timed out after 121 status
\* requests, none of which took any time.
C20_Witness ==
    /\ self.mode = "crawl"
    /\ \E i \in Started :
          /\ tasks[i].pc = "raised" /\ TimedOut(i)
          /\ Cardinality(StatusRequestsFor(i)) = 121
          /\ tasks[i].elapsed = 121 * poll_interval

====
